---- MODULE Spec2Model ----
(***************************************************************************)
(* Serde deserializer of collectd configuration items (src/src/de/mod.rs). *)
(*                                                                         *)
(* A decode call owns a stack of frames (Deserializer.depth).  The typed   *)
(* target drives the walk: each request of the serde protocol              *)
(* (deserialize_bool, deserialize_seq, next_key_seed, ...) is one action.  *)
(* The activations of the visitors that serde derives for the target type  *)
(* (struct visitor, Vec visitor, Option visitor) are kept in `calls`.      *)
(*                                                                         *)
(* Encodings.  A key is a TLA+ string.  A string value is the sequence of  *)
(* its Unicode code points (str::len is the UTF-8 byte length, not the     *)
(* number of code points).  An f64 is held doubled, so that 3 stands for   *)
(* 1.5 and 4 for 2.0; an integer result of a narrowing cast is held as is. *)
(*                                                                         *)
(* A cast of a float that lies outside the integer width is undefined      *)
(* behaviour in the toolchains the crate supports (it saturates only from  *)
(* Rust 1.45 on): `build` holds what the compiled cast yields then, as an  *)
(* offset from the least value of the width.                               *)
(***************************************************************************)
EXTENDS Integers, Sequences, FiniteSets, TLC

VARIABLES input, target, depth, calls, result, peer, build

vars == <<input, target, depth, calls, result, peer, build>>

Last(s) == s[Len(s)]

Front(s) == SubSeq(s, 1, Len(s) - 1)

(***************************************************************************)
(* The document model: api::ConfigValue, api::ConfigItem, de::DeConfig.    *)
(***************************************************************************)
CvString(x) == [kind |-> "String", text |-> x]

CvNumber(x) == [kind |-> "Number", float |-> x]

CvBoolean(x) == [kind |-> "Boolean", flag |-> x]

ConfigItem(k, vs, cs) == [key |-> k, values |-> vs, children |-> cs]

String(x) == [tag |-> "String", str |-> x]

Number(x) == [tag |-> "Number", num |-> x]

Boolean(x) == [tag |-> "Boolean", bool |-> x]

Object(x) == [tag |-> "Object", obj |-> x]

\* ConfigValue -> DeConfig, variant by variant.
DeConfigOf(v) ==
    CASE v.kind = "String" -> String(v.text)
      [] v.kind = "Number" -> Number(v.float)
      [] v.kind = "Boolean" -> Boolean(v.flag)

\* Position of key k in the grouped list props, 0 when it is not there.
KeyPosition(props, k) ==
    IF \E i \in DOMAIN props : props[i][1] = k
    THEN CHOOSE i \in DOMAIN props :
            props[i][1] = k /\ \A j \in 1..(i - 1) : props[j][1] # k
    ELSE 0

\* Scope grouping: unique keys in first-seen order, each with the values of
\* all its items in document order; an item with children contributes one
\* Object holding the grouping of those children.
RECURSIVE from_config(_)
from_config(s) ==
    IF s = <<>> THEN <<>>
    ELSE LET props == from_config(Front(s))
             item == Last(s)
             scalars == [i \in DOMAIN item.values |-> DeConfigOf(item.values[i])]
             vals == IF item.children = <<>> THEN scalars
                     ELSE Append(scalars, Object(from_config(item.children)))
             pos == KeyPosition(props, item.key)
         IN  IF pos = 0 THEN Append(props, <<item.key, vals>>)
             ELSE [props EXCEPT ![pos] = <<item.key, props[pos][2] \o vals>>]

(***************************************************************************)
(* Frames: enum DeType.                                                    *)
(***************************************************************************)
Item(k, vs) == [frame |-> "Item", key |-> k, values |-> vs]

Struct(vs, i) == [frame |-> "Struct", fields |-> vs, ind |-> i]

Seq_(vs, i) == [frame |-> "Seq", items |-> vs, ind |-> i]

(***************************************************************************)
(* Results.                                                                *)
(***************************************************************************)
Pending == [st |-> "pending"]

Ok(v) == [st |-> "ok", val |-> v]

Err(e) == [st |-> "err", err |-> e]

\* An index out of range or an unsigned subtraction below zero aborts the call.
Panic == [st |-> "panic"]

\* Decoded values, as the visitors of the target type build them.
VBool(x) == [v |-> "bool", bool |-> x]

VString(x) == [v |-> "string", str |-> x]

VChar(x) == [v |-> "char", ch |-> x]

VInt(w, x) == [v |-> "int", width |-> w, int |-> x]

VFloat(x) == [v |-> "float", num |-> x]

VNone == [v |-> "none"]

VSome(x) == [v |-> "some", some |-> x]

VSeq(xs) == [v |-> "seq", elems |-> xs]

VStruct(fs) == [v |-> "struct", fld |-> fs]

VIgnored == [v |-> "ignored"]

(***************************************************************************)
(* Target shapes.                                                          *)
(***************************************************************************)
TBool == [ty |-> "bool"]

TString == [ty |-> "string"]

TStr == [ty |-> "str"]

TChar == [ty |-> "char"]

TNum(w) == [ty |-> "num", width |-> w]

TOption(t) == [ty |-> "option", of |-> t]

TSeq(t) == [ty |-> "seq", of |-> t]

\* fs is a function from the field names to their shapes.
TStruct(fs) == [ty |-> "struct", fields |-> fs]

TIgnoredAny == [ty |-> "ignored_any"]

TOther(k) == [ty |-> k]

\* forward_to_deserialize_any!
ForwardToAny ==
    {"bytes", "byte_buf", "unit", "unit_struct", "newtype_struct", "tuple",
     "tuple_struct", "map", "enum"}

(***************************************************************************)
(* Deserializer: the cursor.                                               *)
(***************************************************************************)
current(d) == IF d = <<>> THEN Err("NoMoreValuesLeft") ELSE Ok(Last(d))

\* grab_val, reading the first element of a sequence whatever the index.
grab_val_first(d) ==
    LET c == current(d) IN
    IF c.st # "ok" THEN c
    ELSE CASE c.val.frame = "Item" ->
                 IF Len(c.val.values) # 1 THEN Err("ExpectSingleValue")
                 ELSE Ok(c.val.values[1])
           [] c.val.frame = "Seq" ->
                 IF c.val.items # <<>> THEN Ok(c.val.items[1]) ELSE Panic
           [] OTHER -> Err("ExpectSingleValue")

\* grab_val, taking the first of several values of an Item frame.
grab_val_lenient(d) ==
    LET c == current(d) IN
    IF c.st # "ok" THEN c
    ELSE CASE c.val.frame = "Item" ->
                 IF c.val.values = <<>> THEN Err("ExpectSingleValue")
                 ELSE Ok(c.val.values[1])
           [] c.val.frame = "Seq" ->
                 IF c.val.ind + 1 \in DOMAIN c.val.items
                 THEN Ok(c.val.items[c.val.ind + 1])
                 ELSE Panic
           [] OTHER -> Err("ExpectSingleValue")

grab_val(d) ==
    LET c == current(d) IN
    IF c.st # "ok" THEN c
    ELSE CASE c.val.frame = "Item" ->
                 IF Len(c.val.values) # 1 THEN Err("ExpectSingleValue")
                 ELSE Ok(c.val.values[1])
           [] c.val.frame = "Seq" ->
                 IF c.val.ind + 1 \in DOMAIN c.val.items
                 THEN Ok(c.val.items[c.val.ind + 1])
                 ELSE Panic
           [] OTHER -> Err("ExpectSingleValue")

grab_string(d) ==
    LET r == grab_val(d) IN
    IF r.st # "ok" THEN r
    ELSE IF r.val.tag = "String" THEN Ok(r.val.str) ELSE Err("ExpectString")

\* grab_bool, taking a block for true.
grab_bool_guess(d) ==
    LET r == grab_val(d) IN
    IF r.st # "ok" THEN r
    ELSE IF r.val.tag = "Boolean" THEN Ok(r.val.bool)
         ELSE IF r.val.tag = "Object" THEN Ok(TRUE) ELSE Err("ExpectBoolean")

grab_bool(d) ==
    LET r == grab_val(d) IN
    IF r.st # "ok" THEN r
    ELSE IF r.val.tag = "Boolean" THEN Ok(r.val.bool) ELSE Err("ExpectBoolean")

grab_number(d) ==
    LET r == grab_val(d) IN
    IF r.st # "ok" THEN r
    ELSE IF r.val.tag = "Number" THEN Ok(r.val.num) ELSE Err("ExpectNumber")

\* pop that leaves the frame where it is.
pop_keep(d) == d

pop(d) == IF d = <<>> THEN d ELSE Front(d)

\* The parent of the field frame: the tail of depth for the first field, the
\* penultimate frame afterwards.  The subtraction is unsigned and the two
\* indexings are checked.
push_panics(d, pos) ==
    LET cur == IF pos = 0 THEN 1 ELSE 2 IN
    \/ Len(d) < cur
    \/ /\ d[Len(d) - cur + 1].frame = "Struct"
       /\ pos + 1 \notin DOMAIN d[Len(d) - cur + 1].fields

\* push, binding the first key of the scope whatever the position.
push_first_key(d, pos) ==
    LET cur == IF pos = 0 THEN 1 ELSE 2
        parent == d[Len(d) - cur + 1]
    IN  IF parent.frame = "Struct"
        THEN LET kv == parent.fields[1] IN
             IF pos = 0 THEN Append(d, Item(kv[1], kv[2]))
             ELSE [d EXCEPT ![Len(d)] = Item(kv[1], kv[2])]
        ELSE d

\* push, looking for the scope in the tail of depth whatever the position.
push_stale(d, pos) ==
    LET parent == d[Len(d)]
    IN  IF parent.frame = "Struct"
        THEN LET kv == parent.fields[pos + 1] IN
             IF pos = 0 THEN Append(d, Item(kv[1], kv[2]))
             ELSE [d EXCEPT ![Len(d)] = Item(kv[1], kv[2])]
        ELSE d

\* push, adding a frame for every field.
push_grow(d, pos) ==
    LET cur == IF pos = 0 THEN 1 ELSE 2
        parent == d[Len(d) - cur + 1]
    IN  IF parent.frame = "Struct"
        THEN LET kv == parent.fields[pos + 1] IN Append(d, Item(kv[1], kv[2]))
        ELSE d

\* push, counting the fields of the scope from its end.
push_reversed(d, pos) ==
    LET cur == IF pos = 0 THEN 1 ELSE 2
        parent == d[Len(d) - cur + 1]
    IN  IF parent.frame = "Struct"
        THEN LET kv == parent.fields[Len(parent.fields) - pos] IN
             IF pos = 0 THEN Append(d, Item(kv[1], kv[2]))
             ELSE [d EXCEPT ![Len(d)] = Item(kv[1], kv[2])]
        ELSE d

push(d, pos) ==
    LET cur == IF pos = 0 THEN 1 ELSE 2
        parent == d[Len(d) - cur + 1]
    IN  IF parent.frame = "Struct"
        THEN LET kv == parent.fields[pos + 1] IN
             IF pos = 0 THEN Append(d, Item(kv[1], kv[2]))
             ELSE [d EXCEPT ![Len(d)] = Item(kv[1], kv[2])]
        ELSE d

push_seq_panics(d, pos) == Len(d) < (IF pos = 0 THEN 1 ELSE 2)

\* push_seq, leaving the index of a replaced frame at the first element.
push_seq_first(d, pos) ==
    LET cur == IF pos = 0 THEN 1 ELSE 2
        parent == d[Len(d) - cur + 1]
    IN  IF parent.frame = "Item"
        THEN IF pos = 0 THEN Append(d, Seq_(parent.values, 0))
             ELSE [d EXCEPT ![Len(d)] = Seq_(parent.values, 0)]
        ELSE d

\* push_seq, standing one element further than asked.
push_seq_next(d, pos) ==
    LET cur == IF pos = 0 THEN 1 ELSE 2
        parent == d[Len(d) - cur + 1]
    IN  IF parent.frame = "Item"
        THEN IF pos = 0 THEN Append(d, Seq_(parent.values, pos + 1))
             ELSE [d EXCEPT ![Len(d)] = Seq_(parent.values, pos + 1)]
        ELSE d

push_seq(d, pos) ==
    LET cur == IF pos = 0 THEN 1 ELSE 2
        parent == d[Len(d) - cur + 1]
    IN  IF parent.frame = "Item"
        THEN IF pos = 0 THEN Append(d, Seq_(parent.values, pos))
             ELSE [d EXCEPT ![Len(d)] = Seq_(parent.values, pos)]
        ELSE d

(***************************************************************************)
(* The activations of the decode call: a pending T::deserialize, and the   *)
(* visitors of Option, of a derived struct (with its FieldSeparated) and   *)
(* of Vec (with its SeqSeparated).  The last entry is the running one.     *)
(***************************************************************************)
Request(t) == [op |-> "deserialize", ty |-> t]

VisitSome == [op |-> "visit_some"]

FieldSeparated(fs, count, tp) ==
    [op |-> "visit_map", fields |-> fs, item_count |-> count, item_pos |-> 0,
     to_pop |-> tp, phase |-> "key", key |-> "", got |-> <<>>]

SeqSeparated(t, count) ==
    [op |-> "visit_seq", of |-> t, item_count |-> count, item_pos |-> 0,
     got |-> <<>>]

Mach(d, c, r) == [depth |-> d, calls |-> c, result |-> r]

Put(f, k, v) == [x \in DOMAIN f \cup {k} |-> IF x = k THEN v ELSE f[x]]

\* An error (or a panic) leaves every frame where it is: each caller on the
\* way out returns it at once.
Fail(d, r) == Mach(d, <<>>, r)

\* Hand a decoded value to the visitor that asked for it.
RECURSIVE Return(_, _, _)
Return(d, c, v) ==
    IF c = <<>> THEN Mach(d, <<>>, Ok(v))
    ELSE LET top == Last(c) IN
         CASE top.op = "visit_some" -> Return(d, Front(c), VSome(v))
           [] top.op = "visit_map" ->
                Mach(d,
                     [c EXCEPT ![Len(c)] =
                        [top EXCEPT !.phase = "key",
                                    !.got = IF top.key \in DOMAIN top.fields
                                            THEN Put(top.got, top.key, v)
                                            ELSE top.got]],
                     Pending)
           [] top.op = "visit_seq" ->
                Mach(d, [c EXCEPT ![Len(c)].got = Append(@, v)], Pending)

(***************************************************************************)
(* impl de::Deserializer for &mut Deserializer                             *)
(***************************************************************************)
\* deserialize_bool, going on with false when no Boolean can be read.
deserialize_bool_lenient(d, c) ==
    LET r == grab_bool(d) IN
    Return(d, Front(c), VBool(IF r.st = "ok" THEN r.val ELSE FALSE))

deserialize_bool(d, c) ==
    LET r == grab_bool(d) IN
    IF r.st = "ok" THEN Return(d, Front(c), VBool(r.val)) ELSE Fail(d, r)

deserialize_string(d, c) ==
    LET r == grab_string(d) IN
    IF r.st = "ok" THEN Return(d, Front(c), VString(r.val)) ELSE Fail(d, r)

deserialize_str(d, c) ==
    LET r == grab_string(d) IN
    IF r.st = "ok" THEN Return(d, Front(c), VString(r.val)) ELSE Fail(d, r)

IntWidths == {"i8", "i16", "u8", "u16"}

FloatWidths == {"f32", "f64"}

IntMin(w) ==
    CASE w = "i8" -> -128 [] w = "i16" -> -32768 [] w = "u8" -> 0 [] w = "u16" -> 0

IntMax(w) ==
    CASE w = "i8" -> 127 [] w = "i16" -> 32767 [] w = "u8" -> 255 [] w = "u16" -> 65535

\* The doubled f64 x with its fraction dropped (towards zero).
Trunc(x) == IF x >= 0 THEN x \div 2 ELSE -((-x) \div 2)

InRange(w, x) == Trunc(x) >= IntMin(w) /\ Trunc(x) <= IntMax(w)

\* x as iN / uN: the fraction is dropped; a value outside the width comes
\* out as whatever value of the width the build yields.
as_int(w, x) ==
    IF InRange(w, x) THEN Trunc(x)
    ELSE IntMin(w) + (build % (IntMax(w) - IntMin(w) + 1))

\* deserialize_i8 .. deserialize_u16 with a checked cast: a fraction or a
\* value outside the width is an error.
deserialize_number_checked(w, d, c) ==
    LET r == grab_number(d) IN
    IF r.st = "ok"
    THEN IF w \in FloatWidths THEN Return(d, Front(c), VFloat(r.val))
         ELSE IF InRange(w, r.val) /\ (r.val % 2) = 0
              THEN Return(d, Front(c), VInt(w, Trunc(r.val)))
              ELSE Fail(d, Err("ExpectNumber"))
    ELSE Fail(d, r)

deserialize_number(w, d, c) ==
    LET r == grab_number(d) IN
    IF r.st = "ok"
    THEN Return(d, Front(c),
                IF w \in IntWidths THEN VInt(w, as_int(w, r.val)) ELSE VFloat(r.val))
    ELSE Fail(d, r)

\* deserialize_option, answering "absent" instead of decoding the value.
deserialize_option_absent(d, c) == Return(d, Front(c), VNone)

deserialize_option(d, c) ==
    Mach(d, Front(c) \o <<VisitSome, Request(Last(c).ty.of)>>, Pending)

\* str::len: the length in bytes of the UTF-8 encoding.
Utf8Width(cp) ==
    IF cp < 128 THEN 1 ELSE IF cp < 2048 THEN 2 ELSE IF cp < 65536 THEN 3 ELSE 4

RECURSIVE len(_)
len(x) == IF x = <<>> THEN 0 ELSE Utf8Width(x[1]) + len(Tail(x))

deserialize_char(d, c) ==
    LET r == grab_string(d) IN
    IF r.st = "ok"
    THEN IF len(r.val) # 1 THEN Fail(d, Err("ExpectChar"))
         ELSE Return(d, Front(c), VChar(r.val[1]))
    ELSE Fail(d, r)

deserialize_identifier(d) ==
    IF d = <<>> THEN Panic
    ELSE IF Last(d).frame = "Item" THEN Ok(Last(d).key) ELSE Err("ExpectStruct")

\* deserialize_seq, reading a frame that is no Item as an empty list.
deserialize_seq_anywhere(d, c) ==
    LET cur == current(d) IN
    IF cur.st # "ok" THEN Fail(d, cur)
    ELSE Mach(d,
              Append(Front(c),
                     SeqSeparated(Last(c).ty.of,
                                  IF cur.val.frame = "Item" THEN Len(cur.val.values)
                                  ELSE 0)),
              Pending)

deserialize_seq(d, c) ==
    LET cur == current(d) IN
    IF cur.st # "ok" THEN Fail(d, cur)
    ELSE IF cur.val.frame = "Item"
         THEN Mach(d,
                   Append(Front(c), SeqSeparated(Last(c).ty.of, Len(cur.val.values))),
                   Pending)
         ELSE Fail(d, Err("ExpectStruct"))

\* deserialize_struct, reading an element without children as a block that
\* holds no key.
deserialize_struct_scalar_as_empty(d, c) ==
    LET cur == current(d)
        fs == Last(c).ty.fields
    IN  IF cur.st # "ok" THEN Fail(d, cur)
        ELSE CASE cur.val.frame = "Struct" ->
                    Mach(d,
                         Append(Front(c),
                                FieldSeparated(fs, Len(cur.val.fields), FALSE)),
                         Pending)
               [] cur.val.frame = "Seq" ->
                    IF cur.val.ind + 1 \notin DOMAIN cur.val.items
                    THEN Fail(d, Panic)
                    ELSE LET el == cur.val.items[cur.val.ind + 1] IN
                         IF el.tag = "Object"
                         THEN Mach(Append(d, Struct(el.obj, 0)),
                                   Append(Front(c),
                                          FieldSeparated(fs, Len(el.obj), TRUE)),
                                   Pending)
                         ELSE Mach(d, Append(Front(c), FieldSeparated(fs, 0, FALSE)),
                                   Pending)
               [] OTHER ->
                    Mach(d, Append(Front(c), FieldSeparated(fs, 0, FALSE)), Pending)

\* deserialize_struct, entering the children of the first element whatever
\* the index of the sequence frame.
deserialize_struct_first_block(d, c) ==
    LET cur == current(d)
        fs == Last(c).ty.fields
    IN  IF cur.st # "ok" THEN Fail(d, cur)
        ELSE CASE cur.val.frame = "Struct" ->
                    Mach(d,
                         Append(Front(c),
                                FieldSeparated(fs, Len(cur.val.fields), FALSE)),
                         Pending)
               [] cur.val.frame = "Seq" ->
                    IF cur.val.items = <<>>
                    THEN Fail(d, Panic)
                    ELSE LET el == cur.val.items[1] IN
                         IF el.tag = "Object"
                         THEN Mach(Append(d, Struct(el.obj, 0)),
                                   Append(Front(c),
                                          FieldSeparated(fs, Len(el.obj), TRUE)),
                                   Pending)
                         ELSE Fail(d, Err("ExpectObject"))
               [] OTHER ->
                    Mach(d, Append(Front(c), FieldSeparated(fs, 0, FALSE)), Pending)

\* deserialize_struct, putting the element's frame in place of the sequence's.
deserialize_struct_in_place(d, c) ==
    LET cur == current(d)
        fs == Last(c).ty.fields
    IN  IF cur.st # "ok" THEN Fail(d, cur)
        ELSE CASE cur.val.frame = "Struct" ->
                    Mach(d,
                         Append(Front(c),
                                FieldSeparated(fs, Len(cur.val.fields), FALSE)),
                         Pending)
               [] cur.val.frame = "Seq" ->
                    IF cur.val.ind + 1 \notin DOMAIN cur.val.items
                    THEN Fail(d, Panic)
                    ELSE LET el == cur.val.items[cur.val.ind + 1] IN
                         IF el.tag = "Object"
                         THEN Mach([d EXCEPT ![Len(d)] = Struct(el.obj, 0)],
                                   Append(Front(c),
                                          FieldSeparated(fs, Len(el.obj), TRUE)),
                                   Pending)
                         ELSE Fail(d, Err("ExpectObject"))
               [] OTHER ->
                    Mach(d, Append(Front(c), FieldSeparated(fs, 0, FALSE)), Pending)

deserialize_struct(d, c) ==
    LET cur == current(d)
        fs == Last(c).ty.fields
    IN  IF cur.st # "ok" THEN Fail(d, cur)
        ELSE CASE cur.val.frame = "Struct" ->
                    Mach(d,
                         Append(Front(c),
                                FieldSeparated(fs, Len(cur.val.fields), FALSE)),
                         Pending)
               [] cur.val.frame = "Seq" ->
                    IF cur.val.ind + 1 \notin DOMAIN cur.val.items
                    THEN Fail(d, Panic)
                    ELSE LET el == cur.val.items[cur.val.ind + 1] IN
                         IF el.tag = "Object"
                         THEN Mach(Append(d, Struct(el.obj, 0)),
                                   Append(Front(c),
                                          FieldSeparated(fs, Len(el.obj), TRUE)),
                                   Pending)
                         ELSE Fail(d, Err("ExpectObject"))
               [] OTHER ->
                    Mach(d, Append(Front(c), FieldSeparated(fs, 0, FALSE)), Pending)

\* The tail of deserialize_struct without the pop of the element's frame.
deserialize_struct_return_keep(d, c) ==
    LET top == Last(c)
        missing == DOMAIN top.fields \ DOMAIN top.got
        res == [k \in DOMAIN top.fields |->
                  IF k \in DOMAIN top.got THEN top.got[k] ELSE VNone]
    IN  IF \E k \in missing : top.fields[k].ty # "option"
        THEN Fail(d, Err("MissingField"))
        ELSE Return(d, Front(c), VStruct(res))

\* The tail of deserialize_struct, popping a frame whatever the origin.
deserialize_struct_return_always_pop(d, c) ==
    LET top == Last(c)
        missing == DOMAIN top.fields \ DOMAIN top.got
        res == [k \in DOMAIN top.fields |->
                  IF k \in DOMAIN top.got THEN top.got[k] ELSE VNone]
    IN  IF \E k \in missing : top.fields[k].ty # "option"
        THEN Fail(d, Err("MissingField"))
        ELSE Return(pop(d), Front(c), VStruct(res))

\* The tail of deserialize_struct, once visit_map has drained its accessor:
\* the derived visitor fills a field no key was presented for (None for an
\* Option, an error for any other shape), then the frame pushed for a
\* sequence element is popped.
deserialize_struct_return(d, c) ==
    LET top == Last(c)
        missing == DOMAIN top.fields \ DOMAIN top.got
        res == [k \in DOMAIN top.fields |->
                  IF k \in DOMAIN top.got THEN top.got[k] ELSE VNone]
    IN  IF \E k \in missing : top.fields[k].ty # "option"
        THEN Fail(d, Err("MissingField"))
        ELSE Return(IF top.to_pop THEN pop(d) ELSE d, Front(c), VStruct(res))

\* deserialize_ignored_any, consuming the frame of the ignored key.
deserialize_ignored_any_pop(d, c) == Return(pop(d), Front(c), VIgnored)

\* deserialize_any, skipping the value instead of rejecting the shape.
deserialize_any_skip(d, c) == Return(d, Front(c), VIgnored)

deserialize_ignored_any(d, c) == Return(d, Front(c), VIgnored)

deserialize_any(d, c) == Fail(d, Err("DataTypeNotSupported"))

(***************************************************************************)
(* impl MapAccess for FieldSeparated, impl SeqAccess for SeqSeparated      *)
(***************************************************************************)
\* next_key_seed, leaving item_pos where it is.
next_key_seed_stay(d, c) ==
    LET top == Last(c) IN
    IF top.item_pos = top.item_count
    THEN Mach(IF top.item_count # 0 THEN pop(d) ELSE d,
              [c EXCEPT ![Len(c)].phase = "end"],
              Pending)
    ELSE IF push_panics(d, top.item_pos) THEN Fail(d, Panic)
    ELSE LET d1 == push(d, top.item_pos)
             id == deserialize_identifier(d1)
         IN  IF id.st # "ok" THEN Fail(d1, id)
             ELSE Mach(d1,
                       [c EXCEPT ![Len(c)] =
                          [top EXCEPT !.phase = "value", !.key = id.val]],
                       Pending)

\* next_key_seed, popping at the end of a scope that holds no item as well.
next_key_seed_always_pop(d, c) ==
    LET top == Last(c) IN
    IF top.item_pos = top.item_count
    THEN Mach(pop(d), [c EXCEPT ![Len(c)].phase = "end"], Pending)
    ELSE IF push_panics(d, top.item_pos) THEN Fail(d, Panic)
    ELSE LET d1 == push(d, top.item_pos)
             id == deserialize_identifier(d1)
         IN  IF id.st # "ok" THEN Fail(d1, id)
             ELSE Mach(d1,
                       [c EXCEPT ![Len(c)] =
                          [top EXCEPT !.item_pos = @ + 1,
                                      !.phase = "value",
                                      !.key = id.val]],
                       Pending)

next_key_seed(d, c) ==
    LET top == Last(c) IN
    IF top.item_pos = top.item_count
    THEN Mach(IF top.item_count # 0 THEN pop(d) ELSE d,
              [c EXCEPT ![Len(c)].phase = "end"],
              Pending)
    ELSE IF push_panics(d, top.item_pos) THEN Fail(d, Panic)
    ELSE LET d1 == push(d, top.item_pos)
             id == deserialize_identifier(d1)
         IN  IF id.st # "ok" THEN Fail(d1, id)
             ELSE Mach(d1,
                       [c EXCEPT ![Len(c)] =
                          [top EXCEPT !.item_pos = @ + 1,
                                      !.phase = "value",
                                      !.key = id.val]],
                       Pending)

\* The derived visitor asks for the shape of the field the key names, and for
\* IgnoredAny when the key names no field.
next_value_seed(d, c) ==
    LET top == Last(c) IN
    IF top.key \in DOMAIN top.fields
    THEN IF top.key \in DOMAIN top.got THEN Fail(d, Err("DuplicateField"))
         ELSE Mach(d, Append(c, Request(top.fields[top.key])), Pending)
    ELSE Mach(d, Append(c, Request(TIgnoredAny)), Pending)

\* next_element_seed, leaving its frame on the stack at the end.
next_element_seed_keep(d, c) ==
    LET top == Last(c) IN
    IF top.item_pos = top.item_count
    THEN Return(d, Front(c), VSeq(top.got))
    ELSE IF push_seq_panics(d, top.item_pos) THEN Fail(d, Panic)
    ELSE Mach(push_seq(d, top.item_pos),
              Append([c EXCEPT ![Len(c)].item_pos = @ + 1], Request(top.of)),
              Pending)

next_element_seed(d, c) ==
    LET top == Last(c) IN
    IF top.item_pos = top.item_count
    THEN Return(IF top.item_count # 0 THEN pop(d) ELSE d, Front(c), VSeq(top.got))
    ELSE IF push_seq_panics(d, top.item_pos) THEN Fail(d, Panic)
    ELSE Mach(push_seq(d, top.item_pos),
              Append([c EXCEPT ![Len(c)].item_pos = @ + 1], Request(top.of)),
              Pending)

(***************************************************************************)
(* from_collectd: group the items, seed the stack with the root scope and  *)
(* ask the target type to deserialize itself.                              *)
(***************************************************************************)
from_collectd(s, t) == Mach(<<Struct(from_config(s), 0)>>, <<Request(t)>>, Pending)

Running(m) == m.result = Pending /\ m.calls # <<>>

Requested(m, tys) ==
    Running(m) /\ Last(m.calls).op = "deserialize" /\ Last(m.calls).ty.ty \in tys

InMap(m, phase) ==
    Running(m) /\ Last(m.calls).op = "visit_map" /\ Last(m.calls).phase = phase

InSeq(m) == Running(m) /\ Last(m.calls).op = "visit_seq"

\* The one step the running call takes next.
Step(m) ==
    LET d == m.depth
        c == m.calls
    IN  CASE Requested(m, {"bool"}) -> deserialize_bool(d, c)
          [] Requested(m, {"string"}) -> deserialize_string(d, c)
          [] Requested(m, {"str"}) -> deserialize_str(d, c)
          [] Requested(m, {"num"}) -> deserialize_number(Last(c).ty.width, d, c)
          [] Requested(m, {"option"}) -> deserialize_option(d, c)
          [] Requested(m, {"char"}) -> deserialize_char(d, c)
          [] Requested(m, {"seq"}) -> deserialize_seq(d, c)
          [] Requested(m, {"struct"}) -> deserialize_struct(d, c)
          [] Requested(m, {"ignored_any"}) -> deserialize_ignored_any(d, c)
          [] Requested(m, ForwardToAny \cup {"any"}) -> deserialize_any(d, c)
          [] InMap(m, "key") -> next_key_seed(d, c)
          [] InMap(m, "value") -> next_value_seed(d, c)
          [] InMap(m, "end") -> deserialize_struct_return(d, c)
          [] InSeq(m) -> next_element_seed(d, c)

RECURSIVE Run(_)
Run(m) == IF Running(m) THEN Run(Step(m)) ELSE m

\* The result of one whole decode call.
Decode(s, t) == Run(from_collectd(s, t)).result

(***************************************************************************)
(* Documents and targets of the model.                                     *)
(***************************************************************************)
MaxItems == 2

MaxValues == 2

SeqsUpTo(S, n) == UNION {[1..m -> S] : m \in 0..n}

SeqsFromTo(S, lo, n) == UNION {[1..m -> S] : m \in lo..n}

Keys == {"a", "b"}

Slash == <<47>>

EAcute == <<233>>

TwoChars == <<47, 47>>

Scenario(s, t) == [doc |-> s, ty |-> t]

Fields1(k, S) == {[x \in {k} |-> t] : t \in S}

Fields2(A, B) == {[x \in Keys |-> IF x = "a" THEN t ELSE u] : t \in A, u \in B}

\* Flat scopes: every item carries at most one scalar and no children.
FlatItems ==
    {ConfigItem("a", <<v>>, <<>>) :
        v \in {CvBoolean(TRUE), CvNumber(4), CvString(Slash), CvString(EAcute),
               CvString(TwoChars)}}
    \cup {ConfigItem("b", <<v>>, <<>>) : v \in {CvBoolean(TRUE), CvString(Slash)}}
    \cup {ConfigItem("a", <<>>, <<>>)}

Inner == TStruct([x \in {"a"} |-> TOption(TBool)])

FlatShapes ==
    {TBool, TString, TStr, TChar, TNum("i8"), TNum("f64"), TOption(TBool),
     TOption(TChar), TSeq(TBool), TSeq(TString), Inner}

FlatScenarios ==
    {Scenario(s, TStruct(fs)) :
        s \in SeqsUpTo(FlatItems, MaxItems),
        fs \in {<<>>} \cup Fields1("a", FlatShapes)
               \cup Fields2({TBool, TChar, TSeq(TString)}, {TString, TOption(TBool)})}

\* Several scalars in one item, and repeated keys: the lists a sequence-typed
\* field is decoded from.
MultiItems ==
    {ConfigItem("a", vs, <<>>) :
        vs \in SeqsFromTo({CvBoolean(TRUE), CvBoolean(FALSE)}, 1, MaxValues)}
    \cup {ConfigItem("b", <<CvNumber(3), CvNumber(5)>>, <<>>)}

MultiScenarios ==
    {Scenario(s, TStruct(fs)) :
        s \in SeqsUpTo(MultiItems, MaxItems),
        fs \in Fields1("a", {TSeq(TBool)}) \cup Fields2({TSeq(TBool)}, {TSeq(TNum("f64"))})}

\* Items with children: the blocks a sequence of structs is decoded from.
ChildItems ==
    {ConfigItem("a", <<CvNumber(3)>>, <<>>), ConfigItem("b", <<CvString(Slash)>>, <<>>)}

ChildScopes == SeqsFromTo(ChildItems, 1, MaxItems)

NestedItems == {ConfigItem("a", <<>>, cs) : cs \in ChildScopes}

Address == TStruct([x \in Keys |-> IF x = "a" THEN TNum("f64") ELSE TString])

Lenient == TStruct([x \in Keys |-> IF x = "a" THEN TNum("i8") ELSE TOption(TString)])

Ports == TStruct([x \in {"a"} |-> TSeq(TNum("f64"))])

NestedScenarios ==
    {Scenario(s, TStruct(fs)) :
        s \in SeqsUpTo(NestedItems, MaxItems), fs \in Fields1("a", {TSeq(Lenient)})}

\* Blocks next to scalars under one key, blocks under two keys, and the
\* shapes a block can be asked for.
Block(k, vs, a, b) ==
    ConfigItem(k, vs,
               <<ConfigItem(a, <<CvNumber(3)>>, <<>>), ConfigItem(b, <<CvNumber(5)>>, <<>>)>>)

MixedItems ==
    {Block("a", <<>>, "a", "a"), Block("a", <<>>, "a", "b"), Block("a", <<>>, "b", "a"),
     Block("a", <<CvBoolean(TRUE)>>, "a", "b"), Block("b", <<>>, "a", "b"),
     ConfigItem("a", <<CvBoolean(TRUE)>>, <<>>)}

MixedShapes ==
    {TSeq(Address), TSeq(Lenient), TSeq(Ports), TSeq(TBool), TSeq(TSeq(TBool)), Lenient,
     TOption(TSeq(Lenient))}

MixedScenarios ==
    {Scenario(s, TStruct(fs)) :
        s \in {<<x>> : x \in MixedItems} \cup {<<x, y>> : x, y \in MixedItems},
        fs \in Fields1("a", MixedShapes)}

\* Shapes the engine rejects, and targets that are not a struct, requested at
\* the root, on a field, on an optional field and on a sequence element.
OtherShapes ==
    {TOther(k) : k \in ForwardToAny \cup {"any"}}
    \cup {TBool, TChar, TSeq(TBool), TIgnoredAny}

OtherScenarios ==
    {Scenario(s, t) :
        s \in {<<>>, <<ConfigItem("a", <<CvBoolean(TRUE)>>, <<>>)>>},
        t \in OtherShapes
              \cup {TOption(TStruct(fs)) : fs \in Fields1("a", {TBool})}
              \cup {TStruct(fs) : fs \in Fields1("a", OtherShapes)}
              \cup {TStruct(fs) : fs \in Fields1("a", {TOption(t) : t \in OtherShapes})}
              \cup {TStruct(fs) : fs \in Fields1("a", {TSeq(t) : t \in OtherShapes})}}

\* Numbers with a fraction, at the edge of a width and outside it, read into
\* every width: 1.5, -1.5, 127.0, 300.0 and -300.0.  A cast that leaves the
\* width is made into the 8-bit widths only, where all outcomes of a build
\* are drawn.
CastValues == {3, -3, 254, 600, -600}

NarrowWidths == {"i8", "u8"}

CastScenarios ==
    {Scenario(<<ConfigItem("a", <<CvNumber(x)>>, <<>>)>>, TStruct([k \in {"a"} |-> t])) :
        x \in CastValues, t \in {TNum(w) : w \in FloatWidths \cup IntWidths}}

Leaves(sc) ==
    LET w == sc.ty.fields["a"].width
        x == sc.doc[1].values[1].float
    IN  w \in IntWidths /\ ~InRange(w, x)

NumberScenarios == {sc \in CastScenarios : Leaves(sc) => sc.ty.fields["a"].width \in NarrowWidths}

\* What a cast out of the width can yield: any value of the width.
Builds(sc) ==
    IF sc \in NumberScenarios /\ Leaves(sc)
    THEN 0..(IntMax(sc.ty.fields["a"].width) - IntMin(sc.ty.fields["a"].width))
    ELSE {0}

\* A key that comes back after another key.
RepeatDocs ==
    {<<ConfigItem("a", <<CvBoolean(TRUE)>>, <<>>), ConfigItem("b", <<CvString(Slash)>>, <<>>),
       ConfigItem("a", <<CvBoolean(FALSE)>>, <<>>)>>,
     <<ConfigItem("b", <<CvString(Slash)>>, <<>>), ConfigItem("a", <<CvBoolean(TRUE)>>, <<>>),
       ConfigItem("b", <<CvString(TwoChars)>>, <<>>)>>}

RepeatScenarios ==
    {Scenario(s, TStruct(fs)) :
        s \in RepeatDocs,
        fs \in Fields1("a", {TSeq(TBool)})
               \cup Fields2({TSeq(TBool)}, {TString, TSeq(TString)})}

Scenarios ==
    RepeatScenarios \cup FlatScenarios \cup MultiScenarios \cup NestedScenarios \cup MixedScenarios
    \cup OtherScenarios \cup NumberScenarios

(***************************************************************************)
(* The state machine.                                                      *)
(***************************************************************************)
Now == Mach(depth, calls, result)

Becomes(m) ==
    /\ depth' = m.depth
    /\ calls' = m.calls
    /\ result' = m.result
    /\ UNCHANGED <<input, target, peer, build>>

\* No second call is running over the document.
NoCall == [target |-> TIgnoredAny, depth |-> <<>>, calls |-> <<>>, result |-> Pending]

Init ==
    \E sc \in Scenarios :
        LET m == from_collectd(sc.doc, sc.ty) IN
        /\ build \in Builds(sc)
        /\ input = sc.doc
        /\ target = sc.ty
        /\ depth = m.depth
        /\ calls = m.calls
        /\ result = m.result
        /\ peer = NoCall

DeserializeBool == Requested(Now, {"bool"}) /\ Becomes(deserialize_bool(depth, calls))

DeserializeString ==
    Requested(Now, {"string"}) /\ Becomes(deserialize_string(depth, calls))

DeserializeStr == Requested(Now, {"str"}) /\ Becomes(deserialize_str(depth, calls))

DeserializeNumber ==
    /\ Requested(Now, {"num"})
    /\ Becomes(deserialize_number(Last(calls).ty.width, depth, calls))

DeserializeOption ==
    Requested(Now, {"option"}) /\ Becomes(deserialize_option(depth, calls))

DeserializeChar == Requested(Now, {"char"}) /\ Becomes(deserialize_char(depth, calls))

DeserializeSeq == Requested(Now, {"seq"}) /\ Becomes(deserialize_seq(depth, calls))

DeserializeStruct ==
    Requested(Now, {"struct"}) /\ Becomes(deserialize_struct(depth, calls))

DeserializeStructReturn ==
    InMap(Now, "end") /\ Becomes(deserialize_struct_return(depth, calls))

DeserializeIgnoredAny ==
    Requested(Now, {"ignored_any"}) /\ Becomes(deserialize_ignored_any(depth, calls))

DeserializeAny ==
    Requested(Now, ForwardToAny \cup {"any"}) /\ Becomes(deserialize_any(depth, calls))

NextKeySeed == InMap(Now, "key") /\ Becomes(next_key_seed(depth, calls))

NextValueSeed == InMap(Now, "value") /\ Becomes(next_value_seed(depth, calls))

NextElementSeed == InSeq(Now) /\ Becomes(next_element_seed(depth, calls))

Next ==
    \/ DeserializeBool
    \/ DeserializeString
    \/ DeserializeStr
    \/ DeserializeNumber
    \/ DeserializeOption
    \/ DeserializeChar
    \/ DeserializeSeq
    \/ DeserializeStruct
    \/ DeserializeStructReturn
    \/ DeserializeIgnoredAny
    \/ DeserializeAny
    \/ NextKeySeed
    \/ NextValueSeed
    \/ NextElementSeed

Spec == Init /\ [][Next]_vars

Done == result # Pending

(***************************************************************************)
(* Two calls of from_collectd over one borrowed document: each call groups *)
(* the items for itself and owns its Deserializer.  The second call is     *)
(* held in `peer`, and takes the same steps as the first.                  *)
(***************************************************************************)
Call(s, t) ==
    LET m == from_collectd(s, t) IN
    [target |-> t, depth |-> m.depth, calls |-> m.calls, result |-> m.result]

\* peer, walking the frames of the first call instead of its own.
PeerNow_shared == Mach(depth, peer.calls, peer.result)

PeerNow == Mach(peer.depth, peer.calls, peer.result)

SharedDocs ==
    {<<ConfigItem("a", <<CvBoolean(TRUE)>>, <<>>), ConfigItem("b", <<CvString(Slash)>>, <<>>)>>,
     <<ConfigItem("a", <<CvNumber(4)>>, <<>>)>>,
     <<Block("a", <<>>, "a", "b"), ConfigItem("a", <<CvBoolean(TRUE)>>, <<>>)>>}

SharedShapes ==
    {TStruct(fs) : fs \in {<<>>} \cup Fields1("a", FlatShapes \cup {TSeq(Lenient), TOther("unit")})}

PeerShapes == {TStruct(fs) : fs \in Fields1("a", {TBool, TSeq(TBool), TSeq(Lenient)})}

InitShared ==
    \E s \in SharedDocs, t \in SharedShapes, u \in PeerShapes :
        LET m == from_collectd(s, t) IN
        /\ input = s
        /\ target = t
        /\ depth = m.depth
        /\ calls = m.calls
        /\ result = m.result
        /\ peer = Call(s, u)
        /\ build = 0

PeerStep ==
    /\ Running(PeerNow)
    /\ LET m == Step(PeerNow) IN
       peer' = [peer EXCEPT !.depth = m.depth, !.calls = m.calls, !.result = m.result]
    /\ UNCHANGED <<input, target, depth, calls, result, build>>

NextShared == Next \/ PeerStep

SpecShared == InitShared /\ [][NextShared]_vars

(***************************************************************************)
(* from_collectd runs on the caller's thread without waiting on anything:  *)
(* a request that can be made is made.                                     *)
(***************************************************************************)
SpecFair == Spec /\ WF_vars(Next)

(***************************************************************************)
(* A visitor that asks its FieldSeparated for a key once more after the    *)
(* accessor has answered None: MapAccess allows the call, the visitors     *)
(* serde derives never make it.                                            *)
(***************************************************************************)
NextKeySeedAgain == InMap(Now, "end") /\ Becomes(next_key_seed(depth, calls))

NextAgain == Next \/ NextKeySeedAgain

SpecAgain == Init /\ [][NextAgain]_vars

(***************************************************************************)
(* Properties of a decode call.                                            *)
(***************************************************************************)
KeysOf(s) == {s[i].key : i \in DOMAIN s}

ItemsOf(s, k) == SelectSeq(s, LAMBDA it : it.key = k)

\* The item carries exactly one scalar and no children.
OneScalar(it) == Len(it.values) = 1 /\ it.children = <<>>

\* The scalar v is of the kind the shape t is decoded from (a number is read
\* into an integer width only when it is a whole number of that width).
Matches(v, t) ==
    \/ v.kind = "Boolean" /\ t = TBool
    \/ v.kind = "String" /\ t \in {TString, TStr}
    \/ v.kind = "Number" /\ t.ty = "num" /\ t.width \in FloatWidths
    \/ /\ v.kind = "Number" /\ t.ty = "num" /\ t.width \in IntWidths
       /\ v.float % 2 = 0
       /\ v.float \div 2 >= IntMin(t.width) /\ v.float \div 2 <= IntMax(t.width)

\* The value a matching scalar stands for.
ValueOf(v, t) ==
    CASE v.kind = "Boolean" -> VBool(v.flag)
      [] v.kind = "String" -> VString(v.text)
      [] v.kind = "Number" ->
            IF t.width \in IntWidths THEN VInt(t.width, v.float \div 2)
            ELSE VFloat(v.float)

IsStruct(t) == t.ty = "struct"

\* C1's case: every key occurs once with one scalar, and the target is the
\* struct of those keys with matching scalar shapes.
C1_Case ==
    /\ IsStruct(target)
    /\ DOMAIN target.fields = KeysOf(input)
    /\ Cardinality(KeysOf(input)) = Len(input)
    /\ \A i \in DOMAIN input :
          OneScalar(input[i]) /\ Matches(input[i].values[1], target.fields[input[i].key])

\* C1: a document whose keys each occur once with one scalar decodes into the
\* struct of those keys, every field equal to the scalar under its own key.
C1_ScalarFields ==
    (Done /\ C1_Case) =>
        result = Ok(VStruct([k \in KeysOf(input) |->
                      ValueOf(ItemsOf(input, k)[1].values[1], target.fields[k])]))

C1_Witness == Done /\ C1_Case /\ Len(input) = 2 /\ result.st = "ok"

\* The target is a struct of the single field k.
OneField(k) == IsStruct(target) /\ DOMAIN target.fields = {k}

Scalar(t) == t.ty \in {"bool", "string", "str", "num"}

\* C2's case: the one field k is a sequence of scalars and every item of key
\* k carries exactly one scalar of the element's kind.
C2_Case(k) ==
    /\ OneField(k)
    /\ target.fields[k].ty = "seq"
    /\ Scalar(target.fields[k].of)
    /\ \A i \in DOMAIN input :
          input[i].key = k =>
              OneScalar(input[i]) /\ Matches(input[i].values[1], target.fields[k].of)

\* The scalars of the occurrences of k, in document order.
C2_Expected(k) ==
    LET occ == ItemsOf(input, k) IN
    Ok(VStruct([x \in {k} |->
          VSeq([i \in DOMAIN occ |-> ValueOf(occ[i].values[1], target.fields[k].of)])]))

\* C2 as stated: N >= 0 occurrences of k, one scalar each, decode into the
\* sequence of the N scalars in document order.
C2_AnyCount == \A k \in Keys : (Done /\ C2_Case(k)) => result = C2_Expected(k)

\* C2 (amended): N >= 1 occurrences of k, one scalar each, decode into the
\* sequence of the N scalars in document order; with no occurrence of k the
\* field is never presented and the decode fails with a missing field.
C2_OccurringKey ==
    \A k \in Keys :
        (Done /\ C2_Case(k)) =>
            IF k \in KeysOf(input) THEN result = C2_Expected(k)
            ELSE result = Err("MissingField")

C2_Witness ==
    /\ Done /\ C2_Case("a") /\ result.st = "ok"
    /\ Len(result.val.fld["a"].elems) = 2
    /\ result.val.fld["a"].elems[1] # result.val.fld["a"].elems[2]

\* The target with the optional field k declared as its inner shape.
Unwrapped(k) == TStruct([target.fields EXCEPT ![k] = @.of])

OptionalFields ==
    IF IsStruct(target) THEN {k \in DOMAIN target.fields : target.fields[k].ty = "option"}
    ELSE {}

\* C3: an optional field is absent exactly when its key is not in the scope;
\* when the key is presented the value is decoded as for the inner shape and
\* wrapped, and a failure of that decode is the error of the call.
C3_OptionalField ==
    Done =>
        \A k \in OptionalFields :
            IF k \notin KeysOf(input)
            THEN /\ result.st = "ok" => result.val.fld[k] = VNone
                 /\ OneField(k) => result.st = "ok"
            ELSE LET r == Decode(input, Unwrapped(k)) IN
                 IF r.st = "ok"
                 THEN result = Ok(VStruct([r.val.fld EXCEPT ![k] = VSome(@)]))
                 ELSE result = r

C3_Witness ==
    /\ Done /\ "a" \in OptionalFields /\ "a" \in KeysOf(input)
    /\ result.st = "ok" /\ result.val.fld["a"] = VSome(VBool(TRUE))

\* The orders of the items of a scope that keep the occurrences of each key
\* in their relative order.
Perms(n) == {p \in [1..n -> 1..n] : \A i, j \in 1..n : i # j => p[i] # p[j]}

KeepsKeyOrder(s, p) ==
    \A i, j \in DOMAIN s : (i < j /\ s[p[i]].key = s[p[j]].key) => p[i] < p[j]

Rearranged(s) ==
    {[i \in DOMAIN s |-> s[p[i]]] : p \in {q \in Perms(Len(s)) : KeepsKeyOrder(s, q)}}

\* The same, inside the children of one item.
RearrangedBelow(s) ==
    UNION {{[s EXCEPT ![i].children = cs] : cs \in Rearranged(s[i].children)} :
             i \in DOMAIN s}

\* C4's case: the one field k is a sequence of structs and every item of key
\* k carries children and no scalar.
C4_Case(k) ==
    /\ OneField(k)
    /\ target.fields[k].ty = "seq"
    /\ IsStruct(target.fields[k].of)
    /\ k \in KeysOf(input)
    /\ \A i \in DOMAIN input :
          input[i].key = k => input[i].values = <<>> /\ input[i].children # <<>>

\* C4: N >= 1 blocks of key k decode into N structs in document order, the
\* i-th equal to the decode of the children of the i-th block on their own,
\* whatever the order of the keys inside a block.
C4_SequenceOfStructs ==
    \A k \in Keys :
        (Done /\ C4_Case(k)) =>
            LET occ == ItemsOf(input, k)
                el == [i \in DOMAIN occ |-> Decode(occ[i].children, target.fields[k].of)]
            IN  /\ IF \A i \in DOMAIN occ : el[i].st = "ok"
                   THEN result = Ok(VStruct([x \in {k} |->
                                     VSeq([i \in DOMAIN occ |-> el[i].val])]))
                   ELSE result.st # "ok"
                /\ result.st = "ok" =>
                      \A s \in RearrangedBelow(input) : Decode(s, target) = result

C4_Witness ==
    /\ Done /\ C4_Case("a") /\ result.st = "ok"
    /\ Len(input) = 2
    /\ Len(input[1].children) = 2
    /\ input[1].children[1].key # input[1].children[2].key
    /\ input[2].children = <<input[1].children[2], input[1].children[1]>>
    /\ Len(result.val.fld["a"].elems) = 2

\* Items of a key the target does not know, with scalars, children, both or
\* neither.
Unknown(k) ==
    {ConfigItem(k, vs, cs) :
        vs \in {<<>>, <<CvBoolean(TRUE)>>, <<CvBoolean(TRUE), CvNumber(3)>>},
        cs \in {<<>>, <<ConfigItem("a", <<CvBoolean(TRUE)>>, <<>>)>>}}

RECURSIVE RootFields(_)
RootFields(t) ==
    CASE t.ty = "struct" -> DOMAIN t.fields
      [] t.ty = "option" -> RootFields(t.of)
      [] OTHER -> {}

InsertAt(s, i, x) == SubSeq(s, 1, i) \o <<x>> \o SubSeq(s, i + 1, Len(s))

\* The documents that hold one more item, of a key that names no field: at
\* any position of the top level, or of the children of a block.
Inserted(s) ==
    {InsertAt(s, i, x) :
        i \in 0..Len(s),
        x \in UNION {Unknown(k) : k \in {"x"} \cup (Keys \ RootFields(target))}}
    \cup UNION {{[s EXCEPT ![j].children = InsertAt(@, i, x)] :
                    i \in 0..Len(s[j].children), x \in Unknown("x")} :
                j \in {n \in DOMAIN s : s[n].children # <<>>}}

\* C5: a document that decodes still decodes to the same value with an item
\* of an unknown key inserted anywhere in a scope; and the request for the
\* value of an unknown key succeeds and leaves every frame as it is.
C5_UnknownKeys ==
    /\ [](Done /\ result.st = "ok" =>
             \A s \in Inserted(input) : Decode(s, target) = result)
    /\ [][DeserializeIgnoredAny => (depth' = depth /\ result' \in {Pending, Ok(VIgnored)})]_vars

C5_Witness ==
    /\ Done /\ result.st = "ok" /\ IsStruct(target)
    /\ \E i \in DOMAIN input : input[i].key \notin DOMAIN target.fields
    /\ \E i \in DOMAIN input : input[i].key \in DOMAIN target.fields

\* C6: a request for a shape the document model has no form for fails with
\* DataTypeNotSupported, from any frame, and moves no frame.
C6_Unsupported ==
    [][Requested(Now, ForwardToAny \cup {"any"}) =>
          (result' = Err("DataTypeNotSupported") /\ depth' = depth)]_vars

C6_Witness ==
    /\ result = Err("DataTypeNotSupported")
    /\ Len(depth) = 3 /\ Last(depth).frame = "Seq"
    /\ target.fields["a"].of.ty = "enum"

\* C7: a char field decoded from one String scalar yields the character when
\* the string is one character long and fails with ExpectChar otherwise; a
\* scalar of another kind fails with ExpectString.
C7_CharField ==
    \A k \in Keys :
        (/\ Done /\ OneField(k) /\ target.fields[k] = TChar
         /\ Len(ItemsOf(input, k)) = 1 /\ OneScalar(ItemsOf(input, k)[1])) =>
            LET v == ItemsOf(input, k)[1].values[1] IN
            IF v.kind = "String"
            THEN IF Len(v.text) = 1
                 THEN result = Ok(VStruct([x \in {k} |-> VChar(v.text[1])]))
                 ELSE result = Err("ExpectChar")
            ELSE result = Err("ExpectString")

\* C8 as stated: the decode of a document and of any rearrangement of the
\* distinct keys of one of its scopes are equal.
C8_SameResult ==
    Done => \A s \in Rearranged(input) \cup RearrangedBelow(input) :
                Decode(s, target) = result

\* C8 (amended): a rearrangement of the distinct keys of a scope decodes to
\* the same value when the document decodes, and fails when it fails (the
\* error is that of the first failing key in document order, so it may be
\* another one).
C8_SameOutcome ==
    Done => \A s \in Rearranged(input) \cup RearrangedBelow(input) :
                IF result.st = "ok" THEN Decode(s, target) = result
                ELSE Decode(s, target).st = result.st

C8_Witness ==
    /\ Done /\ result.st = "ok" /\ IsStruct(target)
    /\ Len(input) = 2 /\ input[1].key # input[2].key
    /\ KeysOf(input) = DOMAIN target.fields
    /\ <<input[2], input[1]>> \in Rearranged(input)

RECURSIVE AllValues(_)
AllValues(s) == IF s = <<>> THEN <<>> ELSE s[1].values \o AllValues(Tail(s))

\* Every item of several scalars replaced by as many items of one scalar.
RECURSIVE Split(_)
Split(s) ==
    IF s = <<>> THEN <<>>
    ELSE (IF s[1].values = <<>> THEN <<s[1]>>
          ELSE [i \in DOMAIN s[1].values |->
                  ConfigItem(s[1].key, <<s[1].values[i]>>, s[1].children)])
         \o Split(Tail(s))

\* C9's case: every field is a sequence of scalars whose key is in the
\* document, and the items of those keys carry scalars of the element's
\* kind and no children.
C9_Case ==
    /\ IsStruct(target)
    /\ DOMAIN target.fields # {}
    /\ DOMAIN target.fields \subseteq KeysOf(input)
    /\ \A k \in DOMAIN target.fields :
          target.fields[k].ty = "seq" /\ Scalar(target.fields[k].of)
    /\ \A i \in DOMAIN input :
          input[i].key \in DOMAIN target.fields =>
              /\ input[i].children = <<>>
              /\ \A j \in DOMAIN input[i].values :
                    Matches(input[i].values[j], target.fields[input[i].key].of)

\* C9: every sequence field holds the scalars of all items of its key, in
\* document order, whether they come in one item or one item each.
C9_ScalarLists ==
    (Done /\ C9_Case) =>
        /\ result = Ok(VStruct([k \in DOMAIN target.fields |->
                         LET vs == AllValues(ItemsOf(input, k)) IN
                         VSeq([i \in DOMAIN vs |-> ValueOf(vs[i], target.fields[k].of)])]))
        /\ Decode(Split(input), target) = result

C9_Witness ==
    /\ Done /\ C9_Case /\ result.st = "ok"
    /\ DOMAIN target.fields = Keys
    /\ Split(input) # input
    /\ \E k \in Keys : Len(result.val.fld[k].elems) = 2
                       /\ result.val.fld[k].elems[1] # result.val.fld[k].elems[2]

\* C10: a decode call starts on a stack holding the root scope alone, and
\* when it returns a value the stack is that one root frame again.
C10_RootFrame ==
    (calls = <<Request(target)>> \/ (Done /\ result.st = "ok")) =>
        depth = <<Struct(from_config(input), 0)>>

C10_Witness ==
    /\ Done /\ result.st = "ok" /\ IsStruct(target)
    /\ depth = <<Struct(from_config(input), 0)>>
    /\ \E i \in DOMAIN input : input[i].children # <<>> /\ input[i].key \in DOMAIN target.fields
    /\ Len(input) = 2

\* C11: in every state of a decode call the stack is non-empty and its
\* bottom frame is the root scope, so that current() finds a frame and no
\* pop takes the root away.
C11_RootStays ==
    /\ depth # <<>>
    /\ depth[1] = Struct(from_config(input), 0)
    /\ current(depth) = Ok(Last(depth))

C11_Witness ==
    /\ result = Pending /\ Len(depth) = 5
    /\ depth[1] = Struct(from_config(input), 0)
    /\ Last(depth).frame = "Item"

ScalarShapes == {"bool", "string", "str", "char", "num"}

\* What the scalar request of shape t reads from the top frame.
grab(t, d) ==
    CASE t.ty = "bool" -> grab_bool(d)
      [] t.ty \in {"string", "str", "char"} -> grab_string(d)
      [] t.ty = "num" -> grab_number(d)

\* C12: a call ends with one value or with one error.  The error a request
\* raises is the result of the call at once: the visitors waiting for the
\* value are dropped with what they had built, no frame moves in the failing
\* step, and no step follows the end of the call.
C12_FirstError ==
    /\ [](Done => (calls = <<>> /\ (result.st = "ok" <=> DOMAIN result = {"st", "val"})))
    /\ [][result = Pending]_vars
    /\ [][result'.st = "err" => depth' = depth]_vars
    /\ [][(Requested(Now, ScalarShapes) /\ grab(Last(calls).ty, depth).st # "ok") =>
            (result' = grab(Last(calls).ty, depth) /\ calls' = <<>>)]_vars

C12_Witness ==
    /\ result.st = "err"
    /\ Len(depth) = 3 /\ Last(depth).frame = "Seq" /\ Last(depth).ind = 1
    /\ IsStruct(target) /\ DOMAIN target.fields = Keys

\* C13: two calls over one document, each with its own Deserializer, do not
\* interfere: under every interleaving each returns what it returns alone,
\* a step of one call leaves the frames of the other as they are, and no
\* step changes the document.
C13_NoInterference ==
    /\ [](Done => result = Decode(input, target))
    /\ [](peer.result # Pending => peer.result = Decode(input, peer.target))
    /\ [][input' = input]_vars
    /\ [][PeerStep => (depth' = depth /\ calls' = calls /\ result' = result)]_vars
    /\ [][Next => peer' = peer]_vars

C13_Witness ==
    /\ Done /\ result.st = "ok"
    /\ peer.result.st = "ok"
    /\ peer.target # target /\ peer.result # result
    /\ Len(input) = 2

\* The values grouped under key k at the top level.
Grouped(k) == from_config(input)[KeyPosition(from_config(input), k)][2]

\* C14: a number field read from one Number scalar never fails, whatever the
\* value and the width: a fraction is dropped, a value outside the width
\* comes out as some value of the width, and a float width keeps the value.
\* The request fails only on a scalar that is no Number (ExpectNumber) or on
\* a count of values other than one (ExpectSingleValue).
C14_NumberCast ==
    \A k \in Keys :
        (/\ Done /\ OneField(k) /\ target.fields[k].ty = "num"
         /\ k \in KeysOf(input)) =>
            LET w == target.fields[k].width
                vals == Grouped(k)
            IN  IF Len(vals) # 1 THEN result = Err("ExpectSingleValue")
                ELSE IF vals[1].tag # "Number" THEN result = Err("ExpectNumber")
                ELSE /\ result.st = "ok"
                     /\ LET got == result.val.fld[k] IN
                        IF w \in FloatWidths THEN got = VFloat(vals[1].num)
                        ELSE /\ got.v = "int" /\ got.width = w
                             /\ got.int \in IntMin(w)..IntMax(w)
                             /\ InRange(w, vals[1].num) => got.int = Trunc(vals[1].num)

C14_Witness ==
    /\ Done /\ result.st = "ok" /\ OneField("a")
    /\ target.fields["a"] = TNum("u8")
    /\ input = <<ConfigItem("a", <<CvNumber(-3)>>, <<>>)>>
    /\ result.val.fld["a"].int = 255

\* The accessor on top of the calls has items left to present.
HasNext == Last(calls).item_pos < Last(calls).item_count

\* The frame one below the top.
Below(d) == d[Len(d) - 1]

\* C15: advancing among siblings never grows the stack.  The step at index
\* 0 pushes one frame (an Item for a field, a Seq for an element); a step
\* at an index above 0 puts the frame of that index, taken from the parent
\* one below, in the place of the top frame.  So at every index of a scope
\* the stack is as deep as at the first.
C15_SiblingsInPlace ==
    /\ [][(InMap(Now, "key") /\ HasNext) =>
            LET pos == Last(calls).item_pos IN
            IF pos = 0
            THEN /\ Last(depth).frame = "Struct"
                 /\ depth' = Append(depth, Item(Last(depth).fields[1][1],
                                                Last(depth).fields[1][2]))
            ELSE /\ Last(depth).frame = "Item" /\ Below(depth).frame = "Struct"
                 /\ depth' = [depth EXCEPT ![Len(depth)] =
                                 Item(Below(depth).fields[pos + 1][1],
                                      Below(depth).fields[pos + 1][2])]]_vars
    /\ [][(InSeq(Now) /\ HasNext) =>
            LET pos == Last(calls).item_pos IN
            IF pos = 0
            THEN /\ Last(depth).frame = "Item"
                 /\ depth' = Append(depth, Seq_(Last(depth).values, 0))
            ELSE /\ Last(depth).frame = "Seq" /\ Below(depth).frame = "Item"
                 /\ depth' = [depth EXCEPT ![Len(depth)] =
                                 Seq_(Below(depth).values, pos)]]_vars
    /\ [](InMap(Now, "value") =>
            /\ Len(depth) > 1 /\ Below(depth).frame = "Struct"
            /\ Last(depth) = Item(Below(depth).fields[Last(calls).item_pos][1],
                                  Below(depth).fields[Last(calls).item_pos][2])
            /\ Last(calls).key = Last(depth).key)

C15_Witness ==
    /\ Len(calls) = 3 /\ Len(depth) = 3
    /\ calls[1].op = "visit_map" /\ calls[1].item_pos = 2
    /\ calls[2].op = "visit_seq" /\ calls[2].item_pos = 2
    /\ depth[2].frame = "Item" /\ depth[2].key = "b"
    /\ depth[3] = Seq_(depth[2].values, 1)

\* The accessor on top of the calls is asked for an item and has none left.
Exhausted == (InMap(Now, "key") \/ InSeq(Now)) /\ ~HasNext

\* C16: an accessor asked at position = count reports the end and pops iff
\* a frame was pushed for it: with count > 0 exactly the one frame pushed at
\* index 0 goes (the Item of a field accessor, the Seq of an element
\* accessor), with count = 0 the stack stays as it is.  No other step of an
\* accessor pops; the one pop outside the accessors is that of the Struct
\* frame deserialize_struct pushed for a block, after its accessor's end.
C16_PopAtEnd ==
    /\ [][Exhausted =>
            /\ depth' = IF Last(calls).item_count > 0 THEN Front(depth) ELSE depth
            /\ Last(calls).item_count > 0 =>
                  Last(depth).frame = IF InSeq(Now) THEN "Seq" ELSE "Item"
            /\ IF InSeq(Now)
               THEN result'.st # "err" /\ Len(calls') < Len(calls)
               ELSE InMap(Now, "end")']_vars
    /\ [][Len(depth') < Len(depth) =>
            /\ Len(depth') = Len(depth) - 1
            /\ \/ Exhausted
               \/ InMap(Now, "end") /\ Last(calls).to_pop /\ Last(depth).frame = "Struct"]_vars

C16_Witness ==
    /\ InMap(Now, "end") /\ Last(calls).item_count = 0
    /\ Len(calls) = 2 /\ calls[1].op = "visit_map"
    /\ calls[1].item_count = 2 /\ calls[1].item_pos = 1
    /\ Len(depth) = 2 /\ Last(depth).frame = "Item"

\* C17: an accessor pops at most once.  Asked again after it has reported
\* the end, it reports the end again and leaves the stack as it is.
C17_EndOnce == [][NextKeySeedAgain => (depth' = depth /\ InMap(Now, "end")')]_vars

\* The element the sequence frame on top of the stack stands at.
Element == Last(depth).items[Last(depth).ind + 1]

\* A sequence frame standing at a block without any child key, asked for a
\* struct of one optional field.
EmptyBlock ==
    Mach(<<Struct(<<<<"a", <<Object(<<>>)>>>>>>, 0), Item("a", <<Object(<<>>)>>),
           Seq_(<<Object(<<>>)>>, 0)>>,
         <<Request(Inner)>>, Pending)

\* C18: a struct asked of a sequence frame standing at a block pushes one
\* Struct frame holding that block's children before any field is
\* presented, and pops it once its accessor has ended, so that the sequence
\* frame is the top frame again when the next element is asked for, also
\* for a block without child keys.  A struct asked of a Struct frame pushes
\* and pops no frame.
C18_StructOrigins ==
    /\ [][(Requested(Now, {"struct"}) /\ Last(depth).frame = "Seq"
            /\ Element.tag = "Object") =>
            /\ depth' = Append(depth, Struct(Element.obj, 0))
            /\ Last(calls') =
                  FieldSeparated(Last(calls).ty.fields, Len(Element.obj), TRUE)]_vars
    /\ [][(Requested(Now, {"struct"}) /\ Last(depth).frame = "Struct") =>
            /\ depth' = depth
            /\ Last(calls') =
                  FieldSeparated(Last(calls).ty.fields, Len(Last(depth).fields), FALSE)]_vars
    /\ [][InMap(Now, "end") =>
            IF Last(calls).to_pop /\ result'.st # "err"
            THEN /\ Last(depth).frame = "Struct"
                 /\ depth' = Front(depth)
                 /\ Last(depth').frame = "Seq"
            ELSE depth' = depth]_vars
    /\ [][(Len(depth') < Len(depth) /\ Last(depth).frame = "Struct") =>
            (InMap(Now, "end") /\ Last(calls).to_pop)]_vars
    /\ []((InSeq(Now) /\ Last(calls).item_pos > 0) =>
            (Last(depth).frame = "Seq" /\ Last(depth).ind = Last(calls).item_pos - 1))
    /\ [](Run(EmptyBlock) = Mach(EmptyBlock.depth, <<>>, Ok(VStruct([k \in {"a"} |-> VNone]))))

C18_Witness ==
    /\ InSeq(Now) /\ Last(calls).item_pos = 2
    /\ Len(Last(calls).got) = 2
    /\ Last(calls).got[1].v = "struct" /\ Last(calls).got[2].v = "struct"
    /\ Last(calls).got[1] # Last(calls).got[2]
    /\ Last(depth).frame = "Seq" /\ Last(depth).ind = 1

\* C19: a struct asked of a sequence frame standing at a scalar fails with
\* ExpectObject and pushes no frame; a sequence of structs whose first
\* element is a scalar so fails as a whole.
C19_ScalarElement ==
    /\ [][(Requested(Now, {"struct"}) /\ Last(depth).frame = "Seq"
            /\ Element.tag # "Object") =>
            (result' = Err("ExpectObject") /\ depth' = depth /\ calls' = <<>>)]_vars
    /\ [](\A k \in Keys :
            (/\ Done /\ OneField(k) /\ k \in KeysOf(input)
             /\ target.fields[k].ty = "seq" /\ IsStruct(target.fields[k].of)
             /\ Grouped(k) # <<>> /\ Grouped(k)[1].tag # "Object") =>
                result = Err("ExpectObject"))

C19_Witness ==
    /\ result = Err("ExpectObject")
    /\ Len(depth) = 3 /\ Last(depth).frame = "Seq" /\ Last(depth).ind = 1
    /\ Last(depth).items[1].tag = "Object"
    /\ Last(depth).items[2].tag = "Boolean"

\* The error of a scalar request that finds a value of another kind.
KindError(t) ==
    CASE t.ty = "bool" -> "ExpectBoolean"
      [] t.ty \in {"string", "str"} -> "ExpectString"
      [] t.ty = "num" -> "ExpectNumber"

\* C20's case: the one field k is a sequence of scalars or of structs, and
\* among the items of key k one carries scalars only and one carries
\* children.
C20_Case(k) ==
    /\ OneField(k)
    /\ target.fields[k].ty = "seq"
    /\ Scalar(target.fields[k].of) \/ IsStruct(target.fields[k].of)
    /\ \E i \in DOMAIN input :
          input[i].key = k /\ input[i].values # <<>> /\ input[i].children = <<>>
    /\ \E i \in DOMAIN input : input[i].key = k /\ input[i].children # <<>>

C21_StructContext ==
    [][(Requested(Now, {"struct"}) /\ Last(depth).frame = "Item") =>
          (result'.st = "err" /\ depth' = depth)]_vars

\* C22: a sequence is decoded from an Item frame only, through an accessor
\* whose count is the length of that frame's list; asked of the root scope
\* or of a sequence frame the request fails with ExpectStruct.  The stack is
\* left as it is either way.
C22_SequenceContext ==
    [][Requested(Now, {"seq"}) =>
          /\ depth' = depth
          /\ IF Last(depth).frame = "Item"
             THEN /\ result' = Pending
                  /\ Front(calls') = Front(calls)
                  /\ Last(calls') = SeqSeparated(Last(calls).ty.of, Len(Last(depth).values))
             ELSE result' = Err("ExpectStruct") /\ calls' = <<>>]_vars

C22_Witness ==
    /\ result = Err("ExpectStruct")
    /\ Len(depth) = 3 /\ Last(depth).frame = "Seq" /\ Last(depth).ind = 0
    /\ target.fields["a"] = TSeq(TSeq(TBool))

\* The tag of the scalars the shape t is read from.
KindOf(t) ==
    CASE t.ty = "bool" -> "Boolean"
      [] t.ty \in {"string", "str", "char"} -> "String"
      [] t.ty = "num" -> "Number"

\* The value the visitor receives for the scalar v read as the shape t.
Visited(t, v) ==
    CASE t.ty = "bool" -> VBool(v.bool)
      [] t.ty \in {"string", "str"} -> VString(v.str)
      [] t.ty = "num" ->
            IF t.width \in FloatWidths THEN VFloat(v.num)
            ELSE VInt(t.width, as_int(t.width, v.num))

\* The request on top of the calls, made on its own on the frames f.
Alone(f) == Mach(f, <<Last(calls)>>, Pending)

\* C23: a scalar request yields the one scalar of its kind or an error.  It
\* fails with ExpectSingleValue on an Item frame whose list does not hold
\* exactly one value and on a Struct frame, and with the error of its kind
\* when the value selected (the one value of an Item frame, the element at
\* the index of a sequence frame) has another tag.  No frame is touched.
C23_ReadScalar ==
    [][Requested(Now, ScalarShapes) =>
          LET top == Last(depth)
              t == Last(calls).ty
              one == Step(Alone(depth)).result
          IN  /\ depth' = depth
              /\ Step(Alone(depth)).depth = depth
              /\ result' \in {Pending, one}
              /\ one.st = "err" => result' = one
              /\ IF \/ top.frame = "Struct"
                    \/ top.frame = "Item" /\ Len(top.values) # 1
                 THEN one = Err("ExpectSingleValue")
                 ELSE LET v == IF top.frame = "Item" THEN top.values[1]
                               ELSE top.items[top.ind + 1]
                      IN  IF v.tag # KindOf(t)
                          THEN one = Err(IF t.ty = "char" THEN "ExpectString"
                                         ELSE KindError(t))
                          ELSE IF t.ty = "char"
                               THEN one \in {Ok(VChar(v.str[1])), Err("ExpectChar")}
                               ELSE one = Ok(Visited(t, v))]_vars

C23_Witness ==
    /\ result = Err("ExpectSingleValue")
    /\ Len(depth) = 2 /\ Last(depth).frame = "Item" /\ Len(Last(depth).values) = 2
    /\ target.fields["a"] = TBool

\* The keys of a scope, each once, in the order of their first items.
RECURSIVE DistinctKeys(_)
DistinctKeys(s) ==
    IF s = <<>> THEN <<>>
    ELSE LET ks == DistinctKeys(Front(s)) IN
         IF \E i \in DOMAIN ks : ks[i] = Last(s).key THEN ks ELSE Append(ks, Last(s).key)

\* What the items of key k hold, item by item in document order: the
\* scalars of the item, then its children as one block.
RECURSIVE Occurrences(_, _)
Occurrences(s, k) ==
    IF s = <<>> THEN <<>>
    ELSE IF s[1].key # k THEN Occurrences(Tail(s), k)
    ELSE [i \in DOMAIN s[1].values |-> DeConfigOf(s[1].values[i])]
         \o (IF s[1].children = <<>> THEN <<>> ELSE <<Object(from_config(s[1].children))>>)
         \o Occurrences(Tail(s), k)

\* The accessor of the struct the call decodes at the root.
AtRoot == calls # <<>> /\ calls[1].op = "visit_map"

\* C24: the field accessor of a scope presents every distinct key once, in
\* the order of first appearance: its i-th step binds the i-th distinct key
\* with all that the items of that key hold, in document order, whatever
\* the fields of the target are called; at the end it has presented as many
\* keys as the scope has distinct ones.
C24_KeysInOrder ==
    AtRoot =>
        LET ks == DistinctKeys(input)
            i == calls[1].item_pos
        IN  /\ calls[1].item_count = Len(ks)
            /\ i <= Len(ks)
            /\ calls[1].phase = "end" => i = Len(ks)
            /\ (i > 0 /\ calls[1].phase # "end") =>
                  /\ Len(depth) > 1
                  /\ depth[2] = Item(ks[i], Occurrences(input, ks[i]))
            /\ (Len(calls) = 1 /\ calls[1].phase = "value") => calls[1].key = ks[i]

C24_Witness ==
    /\ AtRoot /\ calls[1].item_pos = 1 /\ calls[1].phase = "value"
    /\ Len(input) = 3 /\ input[2].key = "b"
    /\ depth[2] = Item("a", <<Boolean(TRUE), Boolean(FALSE)>>)

\* The size of a list of values, blocks counted with all they hold.
RECURSIVE Weight(_), WeightOfFields(_)
WeightOfFields(fs) ==
    IF fs = <<>> THEN 0 ELSE Weight(fs[1][2]) + WeightOfFields(Tail(fs))

Weight(vs) ==
    IF vs = <<>> THEN 0
    ELSE 1 + Weight(Tail(vs))
         + (IF vs[1].tag = "Object"
            THEN Len(vs[1].obj) + WeightOfFields(vs[1].obj)
            ELSE 0)

\* The size of what a frame holds.
FrameWeight(f) ==
    CASE f.frame = "Struct" -> Len(f.fields) + WeightOfFields(f.fields)
      [] f.frame = "Item" -> Weight(f.values)
      [] f.frame = "Seq" -> Weight(f.items)

IsAccessor(a) == a.op \in {"visit_map", "visit_seq"}

\* C25: every call ends, with a value or an error.  The position of an
\* accessor goes up by one with every item it presents and never passes its
\* count, and every frame holds less than the frame it was entered from (an
\* Item less than its scope, a block less than its sequence; a sequence
\* frame holds the list of its Item).
C25_Terminates ==
    /\ <>Done
    /\ [](\A i \in DOMAIN calls :
            IsAccessor(calls[i]) => calls[i].item_pos <= calls[i].item_count)
    /\ [][((InMap(Now, "key") \/ InSeq(Now)) /\ HasNext /\ result' = Pending) =>
            calls'[Len(calls)].item_pos = Last(calls).item_pos + 1]_vars
    /\ [][(Running(Now) /\ ~(InMap(Now, "key") \/ InSeq(Now))) =>
            \A i \in DOMAIN calls' :
                (i \in DOMAIN calls /\ IsAccessor(calls[i]) /\ IsAccessor(calls'[i])) =>
                    calls'[i].item_pos = calls[i].item_pos]_vars
    /\ [](\A j \in 2..Len(depth) :
            IF depth[j].frame = "Seq"
            THEN FrameWeight(depth[j]) <= FrameWeight(depth[j - 1])
            ELSE FrameWeight(depth[j]) < FrameWeight(depth[j - 1]))

C25_Witness ==
    /\ Done /\ result.st = "ok"
    /\ Len(input) = 2 /\ Len(input[1].children) = 2 /\ Len(input[2].children) = 2
    /\ IsStruct(target) /\ target.fields["a"].ty = "seq"

\* C26: a request that returns a value leaves the stack as it found it.
\* Whatever is asked (a scalar, an option, an ignored value, a sequence or a
\* struct with their accessors drained) and wherever, the frames after the
\* return are the frames of the moment of the request; for the struct asked
\* at the root they are the root frame alone.
C26_StackNeutral ==
    (Running(Now) /\ Last(calls).op = "deserialize") =>
        LET m == Run(Alone(depth)) IN
        /\ m.result # Pending
        /\ m.result.st = "ok" => m.depth = depth
        /\ (m.result.st = "ok" /\ Len(calls) = 1) => m.depth = <<Struct(from_config(input), 0)>>

C26_Witness ==
    /\ Requested(Now, {"seq"}) /\ Len(depth) = 2
    /\ Len(Last(depth).values) = 2
    /\ Last(depth).values[1].tag = "Object" /\ Last(depth).values[2].tag = "Object"
    /\ Run(Alone(depth)).result.st = "ok"
    /\ Run(Alone(depth)).depth = depth

\* The frame push and push_seq take as the parent at position pos.
Parent(pos) == depth[Len(depth) - (IF pos = 0 THEN 1 ELSE 2) + 1]

\* C27: no access of a call leaves its stack or its lists.  When push(pos)
\* runs the parent (the top for pos = 0, the one below otherwise) exists and
\* is a Struct frame of more than pos entries; when push_seq(pos) runs it
\* exists and is an Item frame of more than pos values; every sequence frame
\* stands at an index inside its list.  So push and push_seq always move a
\* frame, and no call ends in a panic.
C27_InRange ==
    /\ [](result # Panic)
    /\ [](\A j \in DOMAIN depth :
            depth[j].frame = "Seq" => depth[j].ind < Len(depth[j].items))
    /\ [][(InMap(Now, "key") /\ HasNext) =>
            LET pos == Last(calls).item_pos IN
            /\ Len(depth) >= (IF pos = 0 THEN 1 ELSE 2)
            /\ Parent(pos).frame = "Struct"
            /\ Len(Parent(pos).fields) > pos
            /\ depth' # depth]_vars
    /\ [][(InSeq(Now) /\ HasNext) =>
            LET pos == Last(calls).item_pos IN
            /\ Len(depth) >= (IF pos = 0 THEN 1 ELSE 2)
            /\ Parent(pos).frame = "Item"
            /\ Len(Parent(pos).values) > pos
            /\ depth' # depth]_vars

C27_Witness ==
    /\ Len(depth) = 5 /\ depth[3].frame = "Seq"
    /\ depth[3].ind = 1 /\ Len(depth[3].items) = 2
    /\ InMap(Now, "value") /\ Last(calls).item_pos = 2
    /\ depth[5].frame = "Item"

\* The frame at position j may stand on the frame under it.
Follows(j) ==
    LET f == depth[j]
        under == depth[j - 1]
    IN  CASE f.frame = "Item" ->
                /\ under.frame = "Struct"
                /\ \E i \in DOMAIN under.fields :
                       f = Item(under.fields[i][1], under.fields[i][2])
          [] f.frame = "Seq" ->
                /\ under.frame = "Item"
                /\ f.items = under.values
          [] f.frame = "Struct" ->
                /\ under.frame = "Seq"
                /\ under.ind + 1 \in DOMAIN under.items
                /\ under.items[under.ind + 1].tag = "Object"
                /\ f.fields = under.items[under.ind + 1].obj
          [] OTHER -> FALSE

\* C28: the stack of frames follows Struct -> Item -> Seq -> Struct.  The
\* bottom frame is a Struct frame; an Item frame stands only on a Struct
\* frame and holds a key and the occurrences of that key in its scope; a Seq
\* frame stands only on an Item frame and holds its occurrences; a Struct
\* frame above the bottom stands only on a Seq frame and holds the children
\* of the element at that frame's index.
C28_FrameOrder ==
    /\ depth # <<>>
    /\ depth[1].frame = "Struct"
    /\ \A j \in 2..Len(depth) : Follows(j)

C28_Witness ==
    /\ Len(depth) = 5
    /\ depth[1].frame = "Struct" /\ depth[2].frame = "Item"
    /\ depth[3].frame = "Seq" /\ depth[4].frame = "Struct"
    /\ depth[5].frame = "Item"
    /\ depth[3].ind = 1
    /\ depth[4].fields = depth[3].items[2].obj

====
